---- MODULE Spec2Model ----
(***************************************************************************)
(* The in-memory shop API of src/task_10_API_Aug.py: the products map,     *)
(* the SKU index, the orders map, the two id counters, and one action per  *)
(* route handler.  Every handler runs wholly inside `with _lock:`, so one  *)
(* handler call is one atomic step.  An exception leaves the handler at    *)
(* the raise, so whatever the handler has written by then stays written.   *)
(* The worker threads that run the handlers, the lock they take and the    *)
(* lines a handler has reached are modelled as well (section Threads).     *)
(***************************************************************************)
EXTENDS Integers, FiniteSets, Sequences, TLC

VARIABLES
    products_by_id,      \* _products_by_id : id -> product dict
    sku_to_id,           \* _sku_to_id      : sku -> id
    orders_by_id,        \* _orders_by_id   : id -> order dict
    next_product_id,     \* _next_product_id
    next_order_id,       \* _next_order_id
    last,                \* the request handled last and its response
    issued_product_ids,  \* history: the ids create_product returned, in order
    issued_order_ids,    \* history: the ids create_order returned, in order
    original_stock,      \* history: id -> <<stock at creation>>, <<>> once
                         \*          update_product has set the stock
    freed_skus,          \* history: the SKUs products held when deleted
    used_skus,           \* history: the SKUs any product has ever held
    lock,                \* _lock: the thread that holds it, or Unlocked
    pc,                  \* thread -> where the thread is in its handler
    frame,               \* thread -> the request the thread is handling
    accepted             \* the number of requests handed to threads so far

store == <<products_by_id, sku_to_id, orders_by_id, next_product_id, next_order_id>>
history == <<issued_product_ids, issued_order_ids, original_stock, freed_skus,
             used_skus>>
threads == <<lock, pc, frame, accepted>>
vars == <<store, last, history, threads>>

----------------------------------------------------------------------------
(* Values of the program.                                                 *)

\* Python's None where a str is expected.  Where an int or a float is
\* expected, an Optional value is a sequence: <<>> is None, <<v>> is v.
None == "None"

\* OrderStatus
PENDING == "PENDING"
PAID == "PAID"
SHIPPED == "SHIPPED"
CANCELED == "CANCELED"
OrderStatus == {PENDING, PAID, SHIPPED, CANCELED}

NoBody == <<>>

\* threading.Lock(): unlocked
Unlocked == 0
\* The worker threads of the dispatcher's pool.
MaxThreads == 2
Threads == 1..MaxThreads
\* A thread that handles no request.
NoFrame == [op |-> "none", id |-> 0, payload |-> NoBody]

----------------
(* Responses.                                                              *)

Ok == 200
Created == 201
NoContent == 204
InvalidArgument == 400
NotFound == 404
Conflict == 409
\* What the framework answers when a handler ends in an exception that is
\* no HTTPException (a TypeError, a pydantic ValidationError).
InternalError == 500

\* HTTPException and the framework's answer to any other exception
IsError(status) == status >= 400

Respond(op, id, status, body) ==
    last' = [op |-> op, id |-> id, status |-> status, body |-> body]

\* raise HTTPException(status_code=status, ...), and any other exception
\* (status InternalError): the response carries no entity.
Raise(op, id, status) == Respond(op, id, status, NoBody)

\* ProductRead(**prod): sku and name are declared str, so a None there is
\* a ValidationError; otherwise the model holds the dict's fields as they are.
ProductReadValid(prod) == prod.sku # None /\ prod.name # None
ProductRead(prod) ==
    [id |-> prod.id, sku |-> prod.sku, name |-> prod.name,
     price |-> prod.price, stock |-> prod.stock]

\* OrderRead(**order): every field of a stored order has its declared type.
OrderRead(order) ==
    [id |-> order.id, product_id |-> order.product_id,
     quantity |-> order.quantity, status |-> order.status,
     created_at |-> order.created_at]

\* del d[key]
Del(d, key) == [k \in DOMAIN d \ {key} |-> d[k]]
\* d[key] = value
Put(d, key, value) == [k \in DOMAIN d \cup {key} |-> IF k = key THEN value ELSE d[k]]

----------------------------------------------------------------------------
(* State after the module is imported.                                     *)

Init ==
    /\ products_by_id = <<>>
    /\ sku_to_id = <<>>
    /\ orders_by_id = <<>>
    /\ next_product_id = 1
    /\ next_order_id = 1
    /\ last = [op |-> "none", id |-> 0, status |-> 0, body |-> NoBody]
    /\ issued_product_ids = <<>>
    /\ issued_order_ids = <<>>
    /\ original_stock = <<>>
    /\ freed_skus = {}
    /\ used_skus = {}
    /\ lock = Unlocked
    /\ pc = [t \in Threads |-> "idle"]
    /\ frame = [t \in Threads |-> NoFrame]
    /\ accepted = 0

----------------------------------------------------------------------------
(* Products.                                                               *)

\* Mutant: the SKU is not looked up.
SkuExistsUnchecked(sku) == FALSE

\* payload.sku in _sku_to_id
SkuExists(sku) == sku \in DOMAIN sku_to_id

\* Mutant: a stock of 0 is refused.
StockInvalidAtZero(stock) == stock <= 0

\* the price and stock checks of create_product and update_product
PriceInvalid(price) == price <= 0
StockInvalid(stock) == stock < 0

\* Mutant: the id is the number of products plus one.
AllocateProductIdByCount == Cardinality(DOMAIN products_by_id) + 1

\* pid = _next_product_id
AllocateProductId == next_product_id

\* POST /products
create_product(payload) ==
    IF SkuExists(payload.sku) THEN
        /\ Raise("create_product", 0, Conflict)
        /\ UNCHANGED <<store, history>>
    ELSE IF PriceInvalid(payload.price) THEN
        /\ Raise("create_product", 0, InvalidArgument)
        /\ UNCHANGED <<store, history>>
    ELSE IF StockInvalid(payload.stock) THEN
        /\ Raise("create_product", 0, InvalidArgument)
        /\ UNCHANGED <<store, history>>
    ELSE
        LET pid == AllocateProductId
            prod == [id |-> pid, sku |-> payload.sku, name |-> payload.name,
                     price |-> payload.price, stock |-> payload.stock]
        IN  /\ next_product_id' = pid + 1
            /\ products_by_id' = Put(products_by_id, pid, prod)
            /\ sku_to_id' = Put(sku_to_id, payload.sku, pid)
            /\ Respond("create_product", 0, Created, ProductRead(prod))
            /\ issued_product_ids' = Append(issued_product_ids, pid)
            /\ original_stock' = Put(original_stock, pid, <<payload.stock>>)
            /\ used_skus' = used_skus \cup {payload.sku}
            /\ UNCHANGED <<orders_by_id, next_order_id, issued_order_ids, freed_skus>>

\* GET /products.  A dict lists its values in insertion order; every key is
\* inserted once, with an id larger than all before it, so that is id order.
RECURSIVE ListValues(_, _)
ListValues(d, ids) ==
    IF ids = {} THEN <<>>
    ELSE LET first == CHOOSE i \in ids : \A j \in ids : i <= j
         IN  <<d[first]>> \o ListValues(d, ids \ {first})

list_products ==
    /\ IF \A pid \in DOMAIN products_by_id : ProductReadValid(products_by_id[pid])
       THEN Respond("list_products", 0, Ok,
                    LET all == ListValues(products_by_id, DOMAIN products_by_id)
                    IN  [i \in DOMAIN all |-> ProductRead(all[i])])
       ELSE Raise("list_products", 0, InternalError)
    /\ UNCHANGED <<store, history>>

\* GET /products/{product_id}: the response in the current state
read_product_response(product_id) ==
    IF product_id \notin DOMAIN products_by_id
    THEN [status |-> NotFound, body |-> NoBody]
    ELSE IF ~ProductReadValid(products_by_id[product_id])
    THEN [status |-> InternalError, body |-> NoBody]
    ELSE [status |-> Ok, body |-> ProductRead(products_by_id[product_id])]

read_product(product_id) ==
    /\ Respond("read_product", product_id,
               read_product_response(product_id).status,
               read_product_response(product_id).body)
    /\ UNCHANGED <<store, history>>

\* What update_product has written when it leaves, by return or by raise:
\* prod is the dict stored in _products_by_id, changed in place.
UpdateProductWrites(product_id, prod, index, stockSet) ==
    /\ products_by_id' = Put(products_by_id, product_id, prod)
    /\ sku_to_id' = index
    /\ original_stock' = IF stockSet THEN Put(original_stock, product_id, <<>>)
                         ELSE original_stock
    /\ used_skus' = used_skus \cup {prod.sku}
    /\ UNCHANGED <<orders_by_id, next_product_id, next_order_id,
                   issued_product_ids, issued_order_ids, freed_skus>>

\* Mutant: the old SKU stays in the index.
ReindexSkuKeepsOld(index, old_sku, new_sku, product_id) ==
    Put(index, new_sku, product_id)

\* del _sku_to_id[prod["sku"]]; _sku_to_id[new_sku] = product_id
ReindexSku(index, old_sku, new_sku, product_id) ==
    Put(Del(index, old_sku), new_sku, product_id)

\* PUT /products/{product_id}; data is payload.dict(exclude_unset=True)
update_product(product_id, data) ==
    IF product_id \notin DOMAIN products_by_id THEN
        /\ Raise("update_product", product_id, NotFound)
        /\ UNCHANGED <<store, history>>
    ELSE
        LET prod == products_by_id[product_id]
            hasSku == "sku" \in DOMAIN data
            hasName == "name" \in DOMAIN data
            hasPrice == "price" \in DOMAIN data
            hasStock == "stock" \in DOMAIN data
            \* after the "sku" block
            index1 == IF hasSku THEN ReindexSku(sku_to_id, prod.sku, data.sku, product_id)
                      ELSE sku_to_id
            prod1 == IF hasSku THEN [prod EXCEPT !.sku = data.sku] ELSE prod
            \* after the "name" block
            prod2 == IF hasName THEN [prod1 EXCEPT !.name = data.name] ELSE prod1
            \* after the "price" block
            prod3 == IF hasPrice THEN [prod2 EXCEPT !.price = data.price[1]] ELSE prod2
            \* after the "stock" block
            prod4 == IF hasStock THEN [prod3 EXCEPT !.stock = data.stock[1]] ELSE prod3
        IN
        IF hasSku /\ data.sku # prod.sku /\ SkuExists(data.sku) THEN
            /\ Raise("update_product", product_id, Conflict)
            /\ UNCHANGED <<store, history>>
        ELSE IF hasPrice /\ data.price = <<>> THEN
            \* None <= 0 is a TypeError
            /\ Raise("update_product", product_id, InternalError)
            /\ UpdateProductWrites(product_id, prod2, index1, FALSE)
        ELSE IF hasPrice /\ PriceInvalid(data.price[1]) THEN
            /\ Raise("update_product", product_id, InvalidArgument)
            /\ UpdateProductWrites(product_id, prod2, index1, FALSE)
        ELSE IF hasStock /\ data.stock = <<>> THEN
            \* None < 0 is a TypeError
            /\ Raise("update_product", product_id, InternalError)
            /\ UpdateProductWrites(product_id, prod3, index1, FALSE)
        ELSE IF hasStock /\ StockInvalid(data.stock[1]) THEN
            /\ Raise("update_product", product_id, InvalidArgument)
            /\ UpdateProductWrites(product_id, prod3, index1, FALSE)
        ELSE IF ~ProductReadValid(prod4) THEN
            /\ Raise("update_product", product_id, InternalError)
            /\ UpdateProductWrites(product_id, prod4, index1, hasStock)
        ELSE
            /\ Respond("update_product", product_id, Ok, ProductRead(prod4))
            /\ UpdateProductWrites(product_id, prod4, index1, hasStock)

\* Mutant of delete_product: the SKU stays in the index.
delete_product_keeps_sku(product_id) ==
    IF product_id \notin DOMAIN products_by_id THEN
        /\ Raise("delete_product", product_id, NotFound)
        /\ UNCHANGED <<store, history>>
    ELSE
        /\ products_by_id' = Del(products_by_id, product_id)
        /\ Respond("delete_product", product_id, NoContent, NoBody)
        /\ original_stock' = Del(original_stock, product_id)
        /\ freed_skus' = freed_skus \cup {products_by_id[product_id].sku}
        /\ UNCHANGED <<sku_to_id, orders_by_id, next_product_id, next_order_id,
                       issued_product_ids, issued_order_ids, used_skus>>

\* DELETE /products/{product_id}
delete_product(product_id) ==
    IF product_id \notin DOMAIN products_by_id THEN
        /\ Raise("delete_product", product_id, NotFound)
        /\ UNCHANGED <<store, history>>
    ELSE
        LET prod == products_by_id[product_id]
        IN  /\ products_by_id' = Del(products_by_id, product_id)
            /\ sku_to_id' = Del(sku_to_id, prod.sku)
            /\ Respond("delete_product", product_id, NoContent, NoBody)
            /\ original_stock' = Del(original_stock, product_id)
            /\ freed_skus' = freed_skus \cup {prod.sku}
            /\ UNCHANGED <<orders_by_id, next_product_id, next_order_id,
                           issued_product_ids, issued_order_ids, used_skus>>

----------------------------------------------------------------------------
(* Orders.                                                                 *)

\* Mutant of the stock restore: the write is left out.
RestoreNothing(prod, n) == prod

\* prod["stock"] -= n
Deduct(prod, n) == [prod EXCEPT !.stock = @ - n]
\* prod["stock"] += n
Restore(prod, n) == [prod EXCEPT !.stock = @ + n]

\* Mutant: the quantity is not written.
SetQuantityNothing(order, quantity) == order

\* Mutant: the order is stamped again when its quantity is written.
SetQuantityStamps(order, quantity) ==
    [order EXCEPT !.quantity = quantity, !.created_at = 0]

\* order["quantity"] = quantity
SetQuantity(order, quantity) == [order EXCEPT !.quantity = quantity]

\* Mutant: only a PENDING order takes a new status.
SetStatusOfPending(order, status) ==
    IF order.status = PENDING THEN [order EXCEPT !.status = status] ELSE order

\* order["status"] = payload.status
SetStatus(order, status) == [order EXCEPT !.status = status]

\* Mutant: an order for the whole stock is refused.
InsufficientStockOffByOne(prod, wanted) == prod.stock <= wanted

\* prod["stock"] < wanted
InsufficientStock(prod, wanted) == prod.stock < wanted

\* oid = _next_order_id
AllocateOrderId == next_order_id

\* POST /orders; now is what datetime.utcnow() returns
create_order(payload, now) ==
    IF payload.product_id \notin DOMAIN products_by_id THEN
        /\ Raise("create_order", 0, NotFound)
        /\ UNCHANGED <<store, history>>
    ELSE IF InsufficientStock(products_by_id[payload.product_id], payload.quantity) THEN
        /\ Raise("create_order", 0, Conflict)
        /\ UNCHANGED <<store, history>>
    ELSE
        LET prod == Deduct(products_by_id[payload.product_id], payload.quantity)
            oid == AllocateOrderId
            order == [id |-> oid, product_id |-> payload.product_id,
                      quantity |-> payload.quantity, status |-> PENDING,
                      created_at |-> now]
        IN  /\ products_by_id' = Put(products_by_id, payload.product_id, prod)
            /\ next_order_id' = oid + 1
            /\ orders_by_id' = Put(orders_by_id, oid, order)
            /\ Respond("create_order", 0, Created, OrderRead(order))
            /\ issued_order_ids' = Append(issued_order_ids, oid)
            /\ UNCHANGED <<sku_to_id, next_product_id, issued_product_ids,
                           original_stock, freed_skus, used_skus>>

\* GET /orders/{order_id}
read_order(order_id) ==
    /\ IF order_id \notin DOMAIN orders_by_id
       THEN Raise("read_order", order_id, NotFound)
       ELSE Respond("read_order", order_id, Ok,
                    OrderRead(orders_by_id[order_id]))
    /\ UNCHANGED <<store, history>>

\* PUT /orders/{order_id}
update_order(order_id, payload) ==
    IF order_id \notin DOMAIN orders_by_id THEN
        /\ Raise("update_order", order_id, NotFound)
        /\ UNCHANGED <<store, history>>
    ELSE
        LET order == orders_by_id[order_id]
            hasQuantity == payload.quantity # <<>>
            quantity == payload.quantity[1]
            delta == quantity - order.quantity
            product_id == order.product_id
            \* _products_by_id.get(...) is None: prod["stock"] is a TypeError
            noProduct == product_id \notin DOMAIN products_by_id
            prod == products_by_id[product_id]
            order1 == IF hasQuantity THEN SetQuantity(order, quantity)
                      ELSE order
            order2 == IF payload.status # None
                      THEN SetStatus(order1, payload.status)
                      ELSE order1
        IN
        IF hasQuantity /\ quantity <= 0 THEN
            /\ Raise("update_order", order_id, InvalidArgument)
            /\ UNCHANGED <<store, history>>
        ELSE IF hasQuantity /\ noProduct THEN
            /\ Raise("update_order", order_id, InternalError)
            /\ UNCHANGED <<store, history>>
        ELSE IF hasQuantity /\ delta > 0 /\ InsufficientStock(prod, delta) THEN
            /\ Raise("update_order", order_id, Conflict)
            /\ UNCHANGED <<store, history>>
        ELSE
            /\ products_by_id' =
                  IF ~hasQuantity THEN products_by_id
                  ELSE IF delta > 0
                  THEN Put(products_by_id, product_id, Deduct(prod, delta))
                  ELSE Put(products_by_id, product_id, Restore(prod, -delta))
            /\ orders_by_id' = Put(orders_by_id, order_id, order2)
            /\ Respond("update_order", order_id, Ok, OrderRead(order2))
            /\ UNCHANGED <<sku_to_id, next_product_id, next_order_id, history>>

\* DELETE /orders/{order_id}
delete_order(order_id) ==
    IF order_id \notin DOMAIN orders_by_id THEN
        /\ Raise("delete_order", order_id, NotFound)
        /\ UNCHANGED <<store, history>>
    ELSE IF orders_by_id[order_id].status # PENDING THEN
        /\ Raise("delete_order", order_id, Conflict)
        /\ UNCHANGED <<store, history>>
    ELSE
        LET order == orders_by_id[order_id]
            product_id == order.product_id
        IN  /\ products_by_id' =
                  IF product_id \in DOMAIN products_by_id
                  THEN Put(products_by_id, product_id,
                           Restore(products_by_id[product_id], order.quantity))
                  ELSE products_by_id
            /\ orders_by_id' = Del(orders_by_id, order_id)
            /\ Respond("delete_order", order_id, NoContent, NoBody)
            /\ UNCHANGED <<sku_to_id, next_product_id, next_order_id, history>>

----------------------------------------------------------------------------
(* The requests the dispatcher may hand to the handlers, in any order.     *)
(* PC, PU, OC, OU are the request bodies drawn and T the clock readings;   *)
(* creation stops once maxProducts products, or maxOrders orders, have     *)
(* been created.  Here a handler runs from its call to its return with no  *)
(* other thread at work: the thread variables stay as they are.            *)

ProductRequests(PC, PU, maxProducts) ==
    \/ \E payload \in PC :
          /\ next_product_id <= maxProducts /\ create_product(payload)
          /\ UNCHANGED threads
    \/ list_products /\ UNCHANGED threads
    \/ \E product_id \in 1..maxProducts :
          read_product(product_id) /\ UNCHANGED threads
    \/ \E product_id \in 1..maxProducts, data \in PU :
          update_product(product_id, data) /\ UNCHANGED threads
    \/ \E product_id \in 1..maxProducts :
          delete_product(product_id) /\ UNCHANGED threads

OrderRequests(OC, OU, T, maxOrders) ==
    \/ \E payload \in OC, now \in T :
          /\ next_order_id <= maxOrders /\ create_order(payload, now)
          /\ UNCHANGED threads
    \/ \E order_id \in 1..maxOrders :
          read_order(order_id) /\ UNCHANGED threads
    \/ \E order_id \in 1..maxOrders, payload \in OU :
          update_order(order_id, payload) /\ UNCHANGED threads
    \/ \E order_id \in 1..maxOrders :
          delete_order(order_id) /\ UNCHANGED threads

\* ProductCreate: every field is required.
ProductCreate(skus, names, prices, stocks) ==
    [sku : skus, name : names, price : prices, stock : stocks]

\* payload.dict(exclude_unset=True) of a ProductUpdate: a dict holding the
\* keys the request set, a key set to null included (with the value None).
Field(key, values) == {<<>>} \cup {key :> v : v \in values}
ProductUpdate(skus, names, prices, stocks) ==
    {s @@ n @@ p @@ k :
        s \in Field("sku", skus), n \in Field("name", names),
        p \in Field("price", prices), k \in Field("stock", stocks)}

\* OrderCreate: both fields are required.
OrderCreate(product_ids, quantities) ==
    [product_id : product_ids, quantity : quantities]

\* OrderUpdate: an unset field and a null field both read as None.
OrderUpdate(quantities, statuses) ==
    [quantity : {<<>>} \cup {<<q>> : q \in quantities},
     status : {None} \cup statuses]

----------------------------------------------------------------------------
(* Spec: every handler, two products and one order.                        *)

MaxProducts == 2
OneOrder == 1

SpecProductCreate == ProductCreate({"A", "B"}, {"n1"}, {0, 1}, {-1, 2})
SpecProductUpdate ==
    ProductUpdate({"A", "B"}, {}, {}, {<<-1>>, <<1>>})
        \cup {[price |-> <<0>>], [name |-> "n2", price |-> <<0>>]}
SpecOrderCreate == OrderCreate(1..MaxProducts, {-1, 0, 1, 2})
SpecOrderUpdate == OrderUpdate({0, 1, 2}, OrderStatus)
Times == {1, 2}
OneTime == {1}

Next ==
    \/ ProductRequests(SpecProductCreate, SpecProductUpdate, MaxProducts)
    \/ OrderRequests(SpecOrderCreate, SpecOrderUpdate, Times, OneOrder)

Spec == Init /\ [][Next]_vars

----------------------------------------------------------------------------
(* SpecProducts: the product handlers alone, with every kind of product    *)
(* request.                                                                *)

\* Requests that set a field to null, alone and after a field that is written.
NullProductUpdate ==
    {[sku |-> None], [name |-> None], [price |-> <<>>], [stock |-> <<>>],
     [sku |-> None, stock |-> <<-1>>], [name |-> "n2", price |-> <<>>]}
RichProductCreate == ProductCreate({"A", "B"}, {"n1", "n2"}, {0, 1}, {-1, 0})
RichProductUpdate ==
    ProductUpdate({"A", "B"}, {"n2"}, {<<0>>, <<2>>}, {<<-1>>, <<2>>})
        \cup NullProductUpdate

NextProducts == ProductRequests(RichProductCreate, RichProductUpdate, MaxProducts)

SpecProducts == Init /\ [][NextProducts]_vars

----------------------------------------------------------------------------
(* SpecOrders: every handler, two orders on plain products.                *)

MaxOrders == 2

PlainProductCreate == ProductCreate({"A", "B"}, {"n1"}, {1}, {2})
PlainProductUpdate == {[stock |-> <<1>>]}
RichOrderCreate == OrderCreate(1..MaxProducts, {-1, 1, 2})
RichOrderUpdate == OrderUpdate({0, 1, 3}, {PENDING, PAID})

NextOrders ==
    \/ ProductRequests(PlainProductCreate, PlainProductUpdate, MaxProducts)
    \/ OrderRequests(RichOrderCreate, RichOrderUpdate, OneTime, MaxOrders)

SpecOrders == Init /\ [][NextOrders]_vars

----------------------------------------------------------------------------
(* Threads.  The dispatcher runs each handler on a worker thread of its    *)
(* pool, so handlers run concurrently and meet at `with _lock:`.  A thread *)
(* is idle, or at the with statement ("acquire"), or inside it: at the top *)
(* of the body ("body"), at a later line of create_order ("deduct",        *)
(* "insert") or update_order ("adjust", "write"), or leaving the block by  *)
(* return or by an exception ("return", "raise").  create_order and        *)
(* update_order are followed line by line between their check of the stock *)
(* and their last write; the other handlers' bodies are one step each.     *)

\* A request: the handler, the id in the path and the body.
Request(op, ids, payloads) == [op : {op}, id : ids, payload : payloads]

\* The threads that hold a request for handler op and have not finished it.
Pending(op) == Cardinality({t \in Threads : frame[t].op = op})

\* The dispatcher hands a request to an idle thread; at most maxRequests
\* requests are made, and creates stop at maxProducts and maxOrders.
Accept(t, request, maxRequests, maxProducts, maxOrders) ==
    /\ pc[t] = "idle"
    /\ accepted < maxRequests
    /\ request.op = "create_product" =>
          next_product_id + Pending("create_product") <= maxProducts
    /\ request.op = "create_order" =>
          next_order_id + Pending("create_order") <= maxOrders
    /\ pc' = [pc EXCEPT ![t] = "acquire"]
    /\ frame' = [frame EXCEPT ![t] = request]
    /\ accepted' = accepted + 1
    /\ UNCHANGED <<lock, store, last, history>>

\* Mutant: the lock is taken whether or not it is held.
LockFreeAlways == TRUE

\* _lock.acquire() returns only when the lock is unlocked
LockFree == lock = Unlocked

\* with _lock:  (entering)
Acquire(t) ==
    /\ pc[t] = "acquire"
    /\ LockFree
    /\ lock' = t
    /\ pc' = [pc EXCEPT ![t] = "body"]
    /\ UNCHANGED <<frame, accepted, store, last, history>>

\* Mutant: an exception leaves the lock as it is.
ReleaseOnReturnOnly(position) == IF position = "raise" THEN lock ELSE Unlocked

\* _lock.release(), which the with statement runs on a return and on an
\* exception alike
Release(position) == Unlocked

\* with _lock:  (leaving, by return or by raise)
Exit(t) ==
    /\ pc[t] \in {"return", "raise"}
    /\ lock' = Release(pc[t])
    /\ pc' = [pc EXCEPT ![t] = "idle"]
    /\ frame' = [frame EXCEPT ![t] = NoFrame]
    /\ UNCHANGED <<accepted, store, last, history>>

\* How a handler leaves the block after it answered with status.
Leaving(status) == IF IsError(status) THEN "raise" ELSE "return"

\* The body of create_product, list_products, read_product, read_order and
\* delete_order.
Handle(t) ==
    /\ pc[t] = "body"
    /\ frame[t].op \in {"create_product", "list_products", "read_product",
                        "read_order", "delete_order"}
    /\ CASE frame[t].op = "create_product" -> create_product(frame[t].payload)
         [] frame[t].op = "list_products" -> list_products
         [] frame[t].op = "read_product" -> read_product(frame[t].id)
         [] frame[t].op = "read_order" -> read_order(frame[t].id)
         [] frame[t].op = "delete_order" -> delete_order(frame[t].id)
    /\ pc' = [pc EXCEPT ![t] = Leaving(last'.status)]
    /\ UNCHANGED <<lock, frame, accepted>>

\* create_order, from the lookup of the product to the stock check
create_order_check(t) ==
    /\ pc[t] = "body" /\ frame[t].op = "create_order"
    /\ LET payload == frame[t].payload
       IN  IF payload.product_id \notin DOMAIN products_by_id THEN
               /\ Raise("create_order", 0, NotFound)
               /\ pc' = [pc EXCEPT ![t] = "raise"]
           ELSE IF InsufficientStock(products_by_id[payload.product_id],
                                     payload.quantity) THEN
               /\ Raise("create_order", 0, Conflict)
               /\ pc' = [pc EXCEPT ![t] = "raise"]
           ELSE
               /\ pc' = [pc EXCEPT ![t] = "deduct"]
               /\ UNCHANGED last
    /\ UNCHANGED <<lock, frame, accepted, store, history>>

\* create_order: prod["stock"] -= payload.quantity
create_order_deduct(t) ==
    /\ pc[t] = "deduct"
    /\ LET payload == frame[t].payload
       IN  products_by_id' =
               Put(products_by_id, payload.product_id,
                   Deduct(products_by_id[payload.product_id], payload.quantity))
    /\ pc' = [pc EXCEPT ![t] = "insert"]
    /\ UNCHANGED <<sku_to_id, orders_by_id, next_product_id, next_order_id,
                   last, history, lock, frame, accepted>>

\* create_order, from the id to the return
create_order_insert(t, now) ==
    /\ pc[t] = "insert"
    /\ LET payload == frame[t].payload
           oid == AllocateOrderId
           order == [id |-> oid, product_id |-> payload.product_id,
                     quantity |-> payload.quantity, status |-> PENDING,
                     created_at |-> now]
       IN  /\ next_order_id' = oid + 1
           /\ orders_by_id' = Put(orders_by_id, oid, order)
           /\ Respond("create_order", 0, Created, OrderRead(order))
           /\ issued_order_ids' = Append(issued_order_ids, oid)
    /\ pc' = [pc EXCEPT ![t] = "return"]
    /\ UNCHANGED <<products_by_id, sku_to_id, next_product_id,
                   issued_product_ids, original_stock, freed_skus, used_skus,
                   lock, frame, accepted>>

\* update_order, from the lookup of the order to the stock check
update_order_check(t) ==
    /\ pc[t] = "body" /\ frame[t].op = "update_order"
    /\ LET order_id == frame[t].id
           payload == frame[t].payload
           hasQuantity == payload.quantity # <<>>
           quantity == payload.quantity[1]
           order == orders_by_id[order_id]
           delta == quantity - order.quantity
           noProduct == order.product_id \notin DOMAIN products_by_id
           prod == products_by_id[order.product_id]
       IN  IF order_id \notin DOMAIN orders_by_id THEN
               /\ Raise("update_order", order_id, NotFound)
               /\ pc' = [pc EXCEPT ![t] = "raise"]
           ELSE IF hasQuantity /\ quantity <= 0 THEN
               /\ Raise("update_order", order_id, InvalidArgument)
               /\ pc' = [pc EXCEPT ![t] = "raise"]
           ELSE IF hasQuantity /\ noProduct THEN
               /\ Raise("update_order", order_id, InternalError)
               /\ pc' = [pc EXCEPT ![t] = "raise"]
           ELSE IF hasQuantity /\ delta > 0 /\ InsufficientStock(prod, delta) THEN
               /\ Raise("update_order", order_id, Conflict)
               /\ pc' = [pc EXCEPT ![t] = "raise"]
           ELSE
               /\ pc' = [pc EXCEPT ![t] = IF hasQuantity THEN "adjust" ELSE "write"]
               /\ UNCHANGED last
    /\ UNCHANGED <<lock, frame, accepted, store, history>>

\* update_order: prod["stock"] -= delta, or prod["stock"] += (-delta)
update_order_adjust(t) ==
    /\ pc[t] = "adjust"
    /\ LET order == orders_by_id[frame[t].id]
           delta == frame[t].payload.quantity[1] - order.quantity
           prod == products_by_id[order.product_id]
       IN  products_by_id' =
               IF delta > 0
               THEN Put(products_by_id, order.product_id, Deduct(prod, delta))
               ELSE Put(products_by_id, order.product_id, Restore(prod, -delta))
    /\ pc' = [pc EXCEPT ![t] = "write"]
    /\ UNCHANGED <<sku_to_id, orders_by_id, next_product_id, next_order_id,
                   last, history, lock, frame, accepted>>

\* update_order, from the write of the quantity to the return
update_order_write(t) ==
    /\ pc[t] = "write"
    /\ LET order_id == frame[t].id
           payload == frame[t].payload
           order == orders_by_id[order_id]
           order1 == IF payload.quantity # <<>>
                     THEN SetQuantity(order, payload.quantity[1])
                     ELSE order
           order2 == IF payload.status # None
                     THEN SetStatus(order1, payload.status)
                     ELSE order1
       IN  /\ orders_by_id' = Put(orders_by_id, order_id, order2)
           /\ Respond("update_order", order_id, Ok, OrderRead(order2))
    /\ pc' = [pc EXCEPT ![t] = "return"]
    /\ UNCHANGED <<products_by_id, sku_to_id, next_product_id, next_order_id,
                   history, lock, frame, accepted>>

\* What one thread may do next.
Run(t, T) ==
    \/ Acquire(t)
    \/ Handle(t)
    \/ create_order_check(t)
    \/ create_order_deduct(t)
    \/ \E now \in T : create_order_insert(t, now)
    \/ update_order_check(t)
    \/ update_order_adjust(t)
    \/ update_order_write(t)
    \/ Exit(t)

ThreadRequests(R, T, maxRequests, maxProducts, maxOrders) ==
    \E t \in Threads :
        \/ \E request \in R : Accept(t, request, maxRequests, maxProducts, maxOrders)
        \/ Run(t, T)

----------------------------------------------------------------------------
(* SpecThreads: concurrent requests on one product; FairThreads: the same  *)
(* with every thread that can take a step taking one in the end.           *)

MaxRequests == 5
OneProduct == 1

ThreadProductCreate == ProductCreate({"A"}, {"n1"}, {1}, {2})
ThreadOrderCreate == OrderCreate({1}, {1, 2})
ThreadOrderUpdate == {[quantity |-> <<2>>, status |-> None],
                      [quantity |-> <<>>, status |-> PAID]}

AllRequests ==
    Request("create_product", {0}, ThreadProductCreate)
        \cup Request("list_products", {0}, {NoBody})
        \cup Request("read_product", {1}, {NoBody})
        \cup Request("create_order", {0}, ThreadOrderCreate)
        \cup Request("read_order", {1}, {NoBody})
        \cup Request("update_order", {1}, ThreadOrderUpdate)
        \cup Request("delete_order", {1}, {NoBody})

NextThreads == ThreadRequests(AllRequests, OneTime, MaxRequests, OneProduct, MaxOrders)

SpecThreads == Init /\ [][NextThreads]_vars

\* The operating system runs every thread that is not blocked.
FairThreads == SpecThreads /\ \A t \in Threads : WF_vars(Run(t, OneTime))

----------------------------------------------------------------------------
(* SpecReserve: concurrent create_order and update_order requests on one   *)
(* product, and reads of it.                                               *)

ReserveOrderCreate == OrderCreate({1}, {-1, 1, 2})
ReserveOrderUpdate == OrderUpdate({1, 2}, {})

ReserveRequests ==
    Request("create_product", {0}, ThreadProductCreate)
        \cup Request("read_product", {1}, {NoBody})
        \cup Request("create_order", {0}, ReserveOrderCreate)
        \cup Request("update_order", 1..MaxOrders, ReserveOrderUpdate)

NextReserve == ThreadRequests(ReserveRequests, OneTime, MaxRequests, OneProduct, MaxOrders)

SpecReserve == Init /\ [][NextReserve]_vars

----------------------------------------------------------------------------
(* Properties.                                                             *)

Live == DOMAIN products_by_id
LiveOrders == DOMAIN orders_by_id
Mutating == {"create_product", "update_product", "delete_product",
             "create_order", "update_order", "delete_order"}

\* C1: whenever create_product, update_product, delete_product, create_order,
\* update_order or delete_order ends in an error, the products map, the SKU
\* index, the orders map and both id counters are what they were before.
C1_AllOrNothing ==
    [][(last'.op \in Mutating /\ IsError(last'.status)) => store' = store]_vars

\* C2: no two live products have the same SKU, and the SKU index is exactly
\* the map from each live product's SKU to that product's id.
C2_SkuIndexExact ==
    /\ \A p, q \in Live :
          p # q => products_by_id[p].sku # products_by_id[q].sku
    /\ DOMAIN sku_to_id = {products_by_id[p].sku : p \in Live}
    /\ \A p \in Live : sku_to_id[products_by_id[p].sku] = p

\* Two live products, an order on one of them, and an update_product that
\* has just written a SKU before it failed on the stock.
C2_Witness ==
    /\ Cardinality(Live) = 2
    /\ LiveOrders # {}
    /\ last.op = "update_product" /\ last.status = InvalidArgument
    /\ products_by_id[1].sku = "B" /\ products_by_id[2].sku = "A"

\* C3: for an existing product with stock S, create_order with quantity
\* q <= S succeeds, stores a new PENDING order of quantity q and sets the
\* stock to S - q; with q > S it fails with Conflict and leaves the stock and
\* the orders map unchanged; on an absent product id it fails with NotFound.
C3_CreateOrderStep(payload) ==
    LET pid == payload.product_id
        q == payload.quantity
    IN  IF pid \notin Live THEN last'.status = NotFound
        ELSE IF q <= products_by_id[pid].stock THEN
            /\ last'.status = Created
            /\ \E oid \in DOMAIN orders_by_id' \ LiveOrders :
                  /\ DOMAIN orders_by_id' = LiveOrders \cup {oid}
                  /\ \A o \in LiveOrders : orders_by_id'[o] = orders_by_id[o]
                  /\ orders_by_id'[oid].product_id = pid
                  /\ orders_by_id'[oid].quantity = q
                  /\ orders_by_id'[oid].status = PENDING
            /\ products_by_id'[pid].stock = products_by_id[pid].stock - q
        ELSE
            /\ last'.status = Conflict
            /\ products_by_id'[pid].stock = products_by_id[pid].stock
            /\ orders_by_id' = orders_by_id

C3_CreateOrder ==
    [][last'.op = "create_order" =>
          \A payload \in SpecOrderCreate :
              (\E now \in Times : create_order(payload, now))
                  => C3_CreateOrderStep(payload)]_vars

\* An order that took the whole stock has just been created.
C3_Witness ==
    /\ last.op = "create_order" /\ last.status = Created
    /\ last.body.quantity = 2
    /\ products_by_id[last.body.product_id].stock = 0

\* C4: delete_order on a PENDING order of quantity q increases the stock of
\* the product it references by exactly q and removes the order; on a PAID,
\* SHIPPED or CANCELED order it fails with Conflict and leaves every
\* product's stock and the order unchanged.  (An order whose product has
\* been deleted references no product: only the removal is stated of it.)
C4_DeleteOrderStep(order_id) ==
    LET order == orders_by_id[order_id]
        pid == order.product_id
    IN  IF order.status = PENDING THEN
            /\ last'.status = NoContent
            /\ orders_by_id' = Del(orders_by_id, order_id)
            /\ pid \in Live =>
                  /\ products_by_id'[pid].stock =
                         products_by_id[pid].stock + order.quantity
                  /\ \A p \in Live \ {pid} : products_by_id'[p] = products_by_id[p]
        ELSE
            /\ last'.status = Conflict
            /\ products_by_id' = products_by_id
            /\ orders_by_id' = orders_by_id

C4_DeleteOrder ==
    [][last'.op = "delete_order" =>
          \A order_id \in LiveOrders :
              delete_order(order_id) => C4_DeleteOrderStep(order_id)]_vars

\* The one order, PENDING, has just been deleted, and a product whose stock
\* only orders have changed holds the 2 units it was created with.
C4_Witness ==
    /\ last.op = "delete_order" /\ last.status = NoContent
    /\ LiveOrders = {} /\ next_order_id = 2
    /\ \E p \in Live : original_stock[p] = <<2>> /\ products_by_id[p].stock = 2

\* C5: update_order that changes an order's quantity from q1 to q2 > 0
\* changes the stock of the product it references by exactly q1 - q2 and
\* sets the quantity to q2; it fails with Conflict, changing neither, exactly
\* when q2 > q1 + the product's stock; with q2 <= 0 it fails with
\* InvalidArgument.  (Stated of orders whose product is live.)  The handler
\* compares the stock with q2 - q1 only when q2 - q1 > 0, so the two Conflict
\* conditions differ once a stock is negative, which create_order's missing
\* quantity check followed by delete_order brings about.
C5_UpdateOrderStep(order_id, payload) ==
    LET order == orders_by_id[order_id]
        pid == order.product_id
        q1 == order.quantity
        q2 == payload.quantity[1]
    IN  IF q2 <= 0 THEN
            /\ last'.status = InvalidArgument
            /\ products_by_id' = products_by_id
            /\ orders_by_id' = orders_by_id
        ELSE pid \in Live =>
            IF q2 > q1 + products_by_id[pid].stock THEN
                /\ last'.status = Conflict
                /\ products_by_id' = products_by_id
                /\ orders_by_id' = orders_by_id
            ELSE
                /\ last'.status = Ok
                /\ products_by_id'[pid].stock =
                       products_by_id[pid].stock + (q1 - q2)
                /\ orders_by_id'[order_id].quantity = q2

C5_UpdateOrder ==
    [][last'.op = "update_order" =>
          \A order_id \in LiveOrders, payload \in RichOrderUpdate :
              (payload.quantity # <<>> /\ update_order(order_id, payload))
                  => C5_UpdateOrderStep(order_id, payload)]_vars

\* C6: for every live product whose stock no update_product has set, the
\* stock plus the quantities of the live orders that reference the product
\* equals the stock the product was created with.
RECURSIVE SumQuantities(_, _)
SumQuantities(product_id, order_ids) ==
    IF order_ids = {} THEN 0
    ELSE LET o == CHOOSE x \in order_ids : TRUE
         IN  (IF orders_by_id[o].product_id = product_id
              THEN orders_by_id[o].quantity ELSE 0)
             + SumQuantities(product_id, order_ids \ {o})

C6_StockConserved ==
    \A p \in Live :
        original_stock[p] # <<>> =>
            products_by_id[p].stock + SumQuantities(p, LiveOrders)
                = original_stock[p][1]

\* Two live orders of different quantities on one product, the second just
\* changed by update_order, and stock taken from the product.
C6_Witness ==
    /\ last.op = "update_order" /\ last.status = Ok
    /\ LiveOrders = {1, 2}
    /\ orders_by_id[1].product_id = orders_by_id[2].product_id
    /\ orders_by_id[1].quantity # orders_by_id[2].quantity
    /\ orders_by_id[1].product_id \in Live
    /\ original_stock[orders_by_id[1].product_id] = <<2>>
    /\ products_by_id[orders_by_id[1].product_id].stock < 2

\* C7: every successful create_product returns an id greater than every
\* product id returned before it, and every successful create_order an id
\* greater than every order id returned before it, deleted entities
\* included; a failed create consumes no id (each counter is one more than
\* the number of successful creates).
StrictlyIncreasing(ids) ==
    \A i, j \in DOMAIN ids : i < j => ids[i] < ids[j]

C7_IdsNeverReused ==
    /\ StrictlyIncreasing(issued_product_ids)
    /\ StrictlyIncreasing(issued_order_ids)
    /\ next_product_id = 1 + Len(issued_product_ids)
    /\ next_order_id = 1 + Len(issued_order_ids)
    /\ (last.op \in {"create_product", "create_order"} /\ last.status = Created)
          => last.body.id =
                 IF last.op = "create_product"
                 THEN issued_product_ids[Len(issued_product_ids)]
                 ELSE issued_order_ids[Len(issued_order_ids)]

\* Product 1 and order 1 were deleted before the second product and the
\* second order were created: these got the id 2.
C7_Witness ==
    /\ issued_product_ids = <<1, 2>> /\ Live = {2}
    /\ issued_order_ids = <<1, 2>> /\ LiveOrders = {2}
    /\ last.op = "create_order" /\ last.status = Created /\ last.body.id = 2

\* The SKU has never been a product's.
PreviouslyUnused(sku) == sku \notin used_skus
\* A live product holds the SKU.
SkuLive(sku) == \E p \in Live : products_by_id[p].sku = sku

\* create_product(payload) succeeded, and read_product on the id it returned
\* answers with the payload's sku, name, price and stock.
CreatedAndReadable(payload) ==
    /\ last'.status = Created
    /\ \E pid \in 1..MaxProducts :
          /\ last'.body.id = pid
          /\ read_product_response(pid)' =
                 [status |-> Ok,
                  body |-> [id |-> pid, sku |-> payload.sku, name |-> payload.name,
                            price |-> payload.price, stock |-> payload.stock]]

\* C8 as stated: creating a product with a previously-unused SKU always
\* succeeds, and read_product on the returned id returns the same fields.
C8_UnusedSkuAlwaysSucceeds ==
    [][last'.op = "create_product" =>
          \A payload \in RichProductCreate :
              (create_product(payload) /\ PreviouslyUnused(payload.sku))
                  => CreatedAndReadable(payload)]_vars

\* C8, amended: creating a product with a previously-unused SKU, a price > 0
\* and a stock >= 0 always succeeds, and read_product on the returned id
\* returns the same sku, name, price and stock.
C8_CreateThenRead ==
    [][last'.op = "create_product" =>
          \A payload \in RichProductCreate :
              (/\ create_product(payload)
               /\ PreviouslyUnused(payload.sku)
               /\ payload.price > 0 /\ payload.stock >= 0)
                  => CreatedAndReadable(payload)]_vars

\* A product has just been created with a SKU used for the first time, next
\* to another live product, and read_product returns what was created.
C8_Witness ==
    /\ last.op = "create_product" /\ last.status = Created
    /\ Cardinality(Live) = 2
    /\ last.body.sku \notin freed_skus
    /\ read_product_response(last.body.id) = [status |-> Ok, body |-> last.body]

\* C9: create_product with the SKU of a live product fails with Conflict,
\* whatever the other fields are, and leaves the products map, the SKU index
\* and the product id counter unchanged.
C9_DuplicateSkuConflict ==
    [][last'.op = "create_product" =>
          \A payload \in RichProductCreate :
              (create_product(payload) /\ SkuLive(payload.sku)) =>
                  /\ last'.status = Conflict
                  /\ UNCHANGED <<products_by_id, sku_to_id, next_product_id>>]_vars

\* A create_product has just been refused while a product is live and an id
\* is still to be issued.
C9_Witness ==
    /\ last.op = "create_product" /\ last.status = Conflict
    /\ Cardinality(Live) = 1 /\ next_product_id = 2

\* C10: after create_product succeeds, read_product on the returned id
\* returns the created fields; after delete_product on an id, read_product
\* on it fails with NotFound and no live product holds the SKU; a later
\* create_product with the SKU of a deleted product (valid price and stock,
\* the SKU not taken again meanwhile) succeeds with an id never issued before.
Range(ids) == {ids[i] : i \in DOMAIN ids}

C10_RoundTrip ==
    [][/\ last'.op = "create_product" =>
            \A payload \in RichProductCreate :
                create_product(payload) =>
                    /\ (/\ payload.sku \in freed_skus
                        /\ ~SkuLive(payload.sku)
                        /\ payload.price > 0 /\ payload.stock >= 0)
                           => last'.status = Created
                    /\ last'.status = Created =>
                           /\ CreatedAndReadable(payload)
                           /\ last'.body.id \notin Range(issued_product_ids)
       /\ last'.op = "delete_product" =>
            \A product_id \in Live :
                delete_product(product_id) =>
                    /\ last'.status = NoContent
                    /\ read_product_response(product_id)' =
                           [status |-> NotFound, body |-> NoBody]
                    /\ \A p \in DOMAIN products_by_id' :
                           products_by_id'[p].sku # products_by_id[product_id].sku
      ]_vars

\* Product 1 was deleted, read_product on it answers NotFound, and a product
\* with its SKU has just been created under the id 2.
C10_Witness ==
    /\ last.op = "create_product" /\ last.status = Created
    /\ last.body.id = 2 /\ issued_product_ids = <<1, 2>>
    /\ last.body.sku \in freed_skus /\ used_skus = {last.body.sku}
    /\ read_product_response(1) = [status |-> NotFound, body |-> NoBody]
    /\ read_product_response(2) = [status |-> Ok, body |-> last.body]

\* The handlers that only read the store.
Reads == {"read_order", "read_product", "list_products"}
\* The thread holds a read request and is at the line that reads the store.
Observing(t) == pc[t] = "body" /\ frame[t].op \in Reads

\* C11: whenever a read_order, read_product or list_products call reads the
\* store, every order that exists has its quantity taken from its product's
\* stock and every unit taken from a stock belongs to an order that exists:
\* stock plus the live orders' quantities is the stock at creation.
C11_OrderAtomicWithStock ==
    \A t \in Threads : Observing(t) => C6_StockConserved

\* A create_order has taken the stock and not yet stored the order, while
\* another thread waits at the lock with a read request.
C11_Witness ==
    \E t, u \in Threads :
        /\ pc[t] = "insert" /\ frame[t].op = "create_order"
        /\ pc[u] = "acquire" /\ frame[u].op \in Reads
        /\ ~C6_StockConserved

\* C12: every live product has stock >= 0 and price > 0.
C12_StockAndPriceValid ==
    \A p \in Live :
        products_by_id[p].stock >= 0 /\ products_by_id[p].price > 0

\* C13: every live order has quantity > 0.
C13_QuantityPositive ==
    \A o \in LiveOrders : orders_by_id[o].quantity > 0

\* The statuses a handler call may end in: success, NotFound, Conflict and
\* InvalidArgument.
Structured == {Ok, Created, NoContent, NotFound, Conflict, InvalidArgument}

\* C14: every handler call ends in success or in NotFound, Conflict or
\* InvalidArgument.
C14_StructuredErrorsOnly ==
    last.op # "none" => last.status \in Structured

\* C15: update_product that supplies a SKU fails with Conflict exactly when
\* the SKU is that of a different live product; supplying the product's own
\* SKU (and nothing else) succeeds and leaves the SKU index unchanged; on
\* success with a new SKU the old SKU is no longer in the index, where
\* create_product looks it up, and the new SKU maps to this product's id.
C15_UpdateSkuStep(product_id, data) ==
    LET old_sku == products_by_id[product_id].sku
        taken == \E q \in Live \ {product_id} : products_by_id[q].sku = data.sku
    IN  /\ last'.status = Conflict <=> taken
        /\ (data.sku = old_sku /\ DOMAIN data = {"sku"}) =>
              /\ last'.status = Ok
              /\ sku_to_id' = sku_to_id
        /\ (last'.status = Ok /\ data.sku # old_sku) =>
              /\ old_sku \notin DOMAIN sku_to_id'
              /\ sku_to_id'[data.sku] = product_id
              /\ products_by_id'[product_id].sku = data.sku

C15_UpdateSku ==
    [][last'.op = "update_product" =>
          \A product_id \in Live, data \in RichProductUpdate :
              ("sku" \in DOMAIN data /\ update_product(product_id, data))
                  => C15_UpdateSkuStep(product_id, data)]_vars

\* C16: update_order that supplies a status and no quantity succeeds on any
\* existing order, whatever its status is, sets the status to the supplied
\* value and changes no product; with a quantity as well, whenever it
\* succeeds the status is the supplied value.  delete_order then succeeds on
\* an order set back to PENDING.
C16_UpdateStatusStep(order_id, payload) ==
    /\ payload.quantity = <<>> =>
          /\ last'.status = Ok
          /\ products_by_id' = products_by_id
          /\ orders_by_id' =
                 Put(orders_by_id, order_id,
                     [orders_by_id[order_id] EXCEPT !.status = payload.status])
    /\ last'.status = Ok =>
          /\ orders_by_id'[order_id].status = payload.status
          /\ last'.body.status = payload.status

C16_AnyStatusTransition ==
    [][/\ last'.op = "update_order" =>
            \A order_id \in LiveOrders, payload \in SpecOrderUpdate :
                (payload.status # None /\ update_order(order_id, payload))
                    => C16_UpdateStatusStep(order_id, payload)
       /\ last'.op = "delete_order" =>
            \A order_id \in LiveOrders :
                (orders_by_id[order_id].status = PENDING /\ delete_order(order_id))
                    => last'.status = NoContent
      ]_vars

\* The order, created at stock 2 with quantity 2, has just been set to
\* SHIPPED by an update that held a status alone: the stock is still 0.
C16_Witness ==
    /\ last.op = "update_order" /\ last.status = Ok
    /\ last.body.status = SHIPPED /\ last.body.quantity = 2
    /\ last.body.product_id \in Live
    /\ original_stock[last.body.product_id] = <<2>>
    /\ products_by_id[last.body.product_id].stock = 0

\* C17: delete_product on an existing id succeeds whether or not live orders
\* reference it, removes the product and its SKU index entry and leaves the
\* orders map and every other product unchanged, so the orders that
\* referenced it keep a product_id that is no product's; delete_order on
\* such an order, PENDING, removes the order and changes no product.
C17_DeleteProductStep(product_id) ==
    /\ last'.status = NoContent
    /\ products_by_id' = Del(products_by_id, product_id)
    /\ sku_to_id' = Del(sku_to_id, products_by_id[product_id].sku)
    /\ orders_by_id' = orders_by_id
    /\ \A o \in LiveOrders :
          orders_by_id[o].product_id = product_id =>
              orders_by_id'[o].product_id \notin DOMAIN products_by_id'

C17_DeleteProduct ==
    [][/\ last'.op = "delete_product" =>
            \A product_id \in Live :
                delete_product(product_id) => C17_DeleteProductStep(product_id)
       /\ last'.op = "delete_order" =>
            \A order_id \in LiveOrders :
                (/\ orders_by_id[order_id].product_id \notin Live
                 /\ orders_by_id[order_id].status = PENDING
                 /\ delete_order(order_id))
                    => /\ last'.status = NoContent
                       /\ orders_by_id' = Del(orders_by_id, order_id)
                       /\ products_by_id' = products_by_id
      ]_vars

\* A product has just been deleted next to another one, and a PENDING order
\* references it.
C17_Witness ==
    /\ last.op = "delete_product" /\ last.status = NoContent
    /\ Cardinality(Live) = 1
    /\ \E o \in LiveOrders :
          /\ orders_by_id[o].product_id = last.id
          /\ orders_by_id[o].product_id \notin Live
          /\ orders_by_id[o].status = PENDING

\* C18: an order's id, product_id and created_at are those create_order
\* gave it for as long as the order exists: no step changes them.
C18_OrderIdentityFixed ==
    [][\A o \in LiveOrders :
          o \in DOMAIN orders_by_id' =>
              /\ orders_by_id'[o].id = o
              /\ orders_by_id'[o].product_id = orders_by_id[o].product_id
              /\ orders_by_id'[o].created_at = orders_by_id[o].created_at]_vars

\* An order created at time 2 has had its quantity and its status changed
\* by update_order, and its product has been deleted since.
C18_Witness ==
    /\ last.op = "delete_product" /\ last.status = NoContent
    /\ \E o \in LiveOrders :
          /\ orders_by_id[o].created_at = 2
          /\ orders_by_id[o].product_id = last.id
          /\ orders_by_id[o].quantity = 1
          /\ orders_by_id[o].status = PAID

\* The thread is inside `with _lock:`.
Inside(t) == pc[t] \notin {"idle", "acquire"}

\* At most one thread is inside the with block, that thread holds the lock,
\* and with no thread inside the lock is unlocked.
LockHeldByTheOneInside ==
    /\ \A t, u \in Threads : (Inside(t) /\ Inside(u)) => t = u
    /\ \A t \in Threads : Inside(t) => lock = t
    /\ (\A t \in Threads : ~Inside(t)) => lock = Unlocked

\* C19: the lock is held by at most one handler at a time and is unlocked
\* whenever no handler is inside its with block, whichever way the last one
\* left it; and every request handed to a thread is completed in the end.
C19_LockReleasedAndLive ==
    /\ []LockHeldByTheOneInside
    /\ \A t \in Threads : (pc[t] # "idle") ~> (pc[t] = "idle")

\* An update_order or delete_order is leaving the with block by an
\* exception while another thread waits at the lock.
C19_Witness ==
    \E t, u \in Threads :
        /\ pc[t] = "raise" /\ frame[t].op \in {"update_order", "delete_order"}
        /\ lock = t
        /\ pc[u] = "acquire"

\* C20: the quantities of the orders on a product never add up to more than
\* the stock the product was created with, and no stock is below 0, in any
\* state of any interleaving of create_order and update_order requests.
C20_NoOverselling ==
    \A p \in Live :
        /\ products_by_id[p].stock >= 0
        /\ SumQuantities(p, LiveOrders) <= original_stock[p][1]

\* A create_order for the whole stock has taken it and not yet returned,
\* while another create_order for the whole stock waits at the lock.
C20_Witness ==
    \E t, u \in Threads :
        /\ pc[t] = "insert" /\ frame[t].payload.quantity = 2
        /\ pc[u] = "acquire" /\ frame[u].op = "create_order"
        /\ frame[u].payload.quantity = 2
        /\ products_by_id[frame[u].payload.product_id].stock = 0

====
